---------------------------- MODULE Spec2Model ----------------------------
(***************************************************************************)
(* dLocal pending-debits processing: the web copy (src/app.py) and the     *)
(* command-line copy (src/automate_dlocal_pending.py).                     *)
(*                                                                         *)
(* Text is modelled as a sequence of one-character strings, so that        *)
(* substring search, case folding, str.replace, the year regular           *)
(* expression, float() and strptime() are computed on the characters.      *)
(* Amounts are integers (finite numbers); a spreadsheet cell is a record   *)
(* [t, n, s]: t is the variant (empty, num, text, date), n the number (or  *)
(* the date as y*10000 + m*100 + d), s the text.                           *)
(***************************************************************************)
EXTENDS Integers, Sequences, FiniteSets, TLC

\* ------------------------------------------------------------------------
\* Text literals of the source, and the texts used as inputs
\* ------------------------------------------------------------------------
S_xlsx == <<".","x","l","s","x">>
S_Summary_JE_xlsx == <<"_","S","u","m","m","a","r","y","_","J","E",".","x","l","s","x">>
S_DateProcessedA == <<"D","a","t","e"," ","p","r","o","c","e","s","s","e","d">>
S_DateProcessedB == <<"D","a","t","e"," ","P","r","o","c","e","s","s","e","d">>
S_ACH_DEBIT_AMOUNT == <<"A","C","H","_","D","E","B","I","T","_","A","M","O","U","N","T">>
S_ACH_RETURN_AMOUNT == <<"A","C","H","_","R","E","T","U","R","N","_","A","M","O","U","N","T">>
S_Date == <<"D","a","t","e">>
S_CN == <<"C","N">>
S_DN == <<"D","N">>
S_JOURNAL_ENTRY == <<"J","O","U","R","N","A","L"," ","E","N","T","R","Y">>
S_NoJE == <<"N","o"," ","j","o","u","r","n","a","l"," ","e","n","t","r","y"," ","r","e","q","u","i","r","e","d"," ","(","N","e","t"," ","A","m","o","u","n","t"," ","="," ","0",")">>
S_Acct22010 == <<"2","2","0","1","0"," ","-"," ","C","u","s","t","o","m","e","r"," ","F","u","n","d","s"," ","O","b","l","i","g","a","t","i","o","n"," ",":"," ","C","u","s","t","o","m","e","r"," ","F","u","n","d","s"," ","L","i","a","b","i","l","i","t","y">>
S_Acct21017 == <<"2","1","0","1","7"," ","-"," ","O","t","h","e","r"," ","C","u","r","r","e","n","t"," ","L","i","a","b","i","l","i","t","i","e","s"," ",":"," ","A","c","c","r","u","e","d"," ","L","i","a","b","i","l","i","t","i","e","s"," ","-"," ","P","l","a","t","f","o","r","m">>
S_Dept == <<"0","0","0","0"," ","C","o","r","p","o","r","a","t","e">>
S_Loc == <<"1"," ","S","a","n"," ","F","r","a","n","c","i","s","c","o">>
S_Subs == <<"G","u","s","t","o"," ","I","n","c"," ","G","l","o","b","a","l"," ",":"," ","G","u","s","t","o"," ","I","n","c"," ","U","S">>
S_Class == <<"6","0","1"," ","H","o","r","i","z","o","n","t","a","l">>
N_ScenarioA == <<"0","9"," ","C","o","n","t","r","o","l"," ","G","u","s","t","o"," ","I","n","c"," ","S","e","p","t","i","e","m","b","r","e"," ","2","0","2","5",".","x","l","s","x">>
N_Diciembre == <<"C","o","n","t","r","o","l"," ","D","i","c","i","e","m","b","r","e"," ","2","0","2","5",".","x","l","s","x">>
H_Notes == <<"N","o","t","e","s">>
T_10725 == <<"1","0","/","7","/","2","5">>
T_dash == <<"-">>

\* ------------------------------------------------------------------------
\* Character and string primitives (Python str semantics)
\* ------------------------------------------------------------------------
UpperChars == <<"A","B","C","D","E","F","G","H","I","J","K","L","M","N","O","P","Q","R","S","T","U","V","W","X","Y","Z">>

LowerChars == <<"a","b","c","d","e","f","g","h","i","j","k","l","m","n","o","p","q","r","s","t","u","v","w","x","y","z">>

DigitChars == <<"0","1","2","3","4","5","6","7","8","9">>

\* the digits with their values, and the upper-case letters with their lower case
DigitOf == [c \in {DigitChars[i] : i \in 1..10} |-> (CHOOSE i \in 1..10 : DigitChars[i] = c) - 1]

LowerOf == [c \in {UpperChars[i] : i \in 1..26} |-> LowerChars[CHOOSE i \in 1..26 : UpperChars[i] = c]]

LowerSet == {LowerChars[i] : i \in 1..26}

IsDigit(c) == c \in DOMAIN DigitOf

DigitVal(c) == DigitOf[c]

IsUpper(c) == c \in DOMAIN LowerOf

IsLower(c) == c \in LowerSet

LowerChar(c) == IF IsUpper(c) THEN LowerOf[c] ELSE c

\* str.lower()
Lower(s) == [i \in 1..Len(s) |-> LowerChar(s[i])]

\* sub occurs in s at position i
OccursAt(sub, s, i) == i >= 1 /\ i + Len(sub) - 1 <= Len(s) /\ \A j \in 1..Len(sub) : s[i + j - 1] = sub[j]

\* Python's "sub in s"
Contains(sub, s) == \E i \in 1..(Len(s) + 1) : OccursAt(sub, s, i)

AllDigits(s) == \A i \in 1..Len(s) : IsDigit(s[i])

RECURSIVE ToNat(_)
\* int() of a string of decimal digits
ToNat(s) == IF Len(s) = 0 THEN 0 ELSE 10 * ToNat(SubSeq(s, 1, Len(s) - 1)) + DigitVal(s[Len(s)])

RECURSIVE NatStr(_)
\* str() of a natural number
NatStr(n) == IF n < 10 THEN <<DigitChars[n + 1]>> ELSE NatStr(n \div 10) \o <<DigitChars[(n % 10) + 1]>>

\* str() of an integer
IntStr(n) == IF n < 0 THEN <<"-">> \o NatStr(0 - n) ELSE NatStr(n)

\* the format specification :02d for a month number
Pad2(n) == IF n < 10 THEN <<"0">> \o NatStr(n) ELSE NatStr(n)

RECURSIVE Replace(_, _, _)
\* str.replace(old, new): every non-overlapping occurrence, left to right
Replace(s, old, new) ==
    IF Len(s) = 0 THEN <<>>
    ELSE IF OccursAt(old, s, 1) THEN new \o Replace(SubSeq(s, Len(old) + 1, Len(s)), old, new)
    ELSE <<s[1]>> \o Replace(SubSeq(s, 2, Len(s)), old, new)

RECURSIVE LStrip(_)
LStrip(s) == IF Len(s) > 0 /\ s[1] = " " THEN LStrip(SubSeq(s, 2, Len(s))) ELSE s

RECURSIVE RStrip(_)
RStrip(s) == IF Len(s) > 0 /\ s[Len(s)] = " " THEN RStrip(SubSeq(s, 1, Len(s) - 1)) ELSE s

\* str.strip()
Strip(s) == RStrip(LStrip(s))

RECURSIVE Split(_, _)
\* str.split(sep) for a one-character separator
Split(s, sep) ==
    IF \A i \in 1..Len(s) : s[i] # sep THEN <<s>>
    ELSE LET k == CHOOSE i \in 1..Len(s) : s[i] = sep /\ \A j \in 1..(i - 1) : s[j] # sep
         IN  <<SubSeq(s, 1, k - 1)>> \o Split(SubSeq(s, k + 1, Len(s)), sep)

\* ------------------------------------------------------------------------
\* Calendar
\* ------------------------------------------------------------------------
IsLeap(y) == (y % 4 = 0 /\ y % 100 # 0) \/ y % 400 = 0
\* a faulty month length: February always has 28 days
monthrange_NoLeap(y, m) == IF m = 2 THEN 28 ELSE IF m \in {4, 6, 9, 11} THEN 30 ELSE 31

\* calendar.monthrange(year, month)[1]
monthrange(y, m) ==
    IF m = 2 THEN (IF IsLeap(y) THEN 29 ELSE 28)
    ELSE IF m \in {4, 6, 9, 11} THEN 30 ELSE 31

\* ------------------------------------------------------------------------
\* extract_month_from_filename, get_following_month
\* ------------------------------------------------------------------------
\* the dictionary in insertion order, which is the order its items are visited
month_mapping ==
    << [name |-> <<"e","n","e","r","o">>, num |-> 1], [name |-> <<"f","e","b","r","e","r","o">>, num |-> 2],
       [name |-> <<"m","a","r","z","o">>, num |-> 3], [name |-> <<"a","b","r","i","l">>, num |-> 4],
       [name |-> <<"m","a","y","o">>, num |-> 5], [name |-> <<"j","u","n","i","o">>, num |-> 6],
       [name |-> <<"j","u","l","i","o">>, num |-> 7], [name |-> <<"a","g","o","s","t","o">>, num |-> 8],
       [name |-> <<"s","e","p","t","i","e","m","b","r","e">>, num |-> 9], [name |-> <<"o","c","t","u","b","r","e">>, num |-> 10],
       [name |-> <<"n","o","v","i","e","m","b","r","e">>, num |-> 11], [name |-> <<"d","i","c","i","e","m","b","r","e">>, num |-> 12],
       [name |-> <<"j","a","n","u","a","r","y">>, num |-> 1], [name |-> <<"f","e","b","r","u","a","r","y">>, num |-> 2],
       [name |-> <<"m","a","r","c","h">>, num |-> 3], [name |-> <<"a","p","r","i","l">>, num |-> 4],
       [name |-> <<"m","a","y">>, num |-> 5], [name |-> <<"j","u","n","e">>, num |-> 6],
       [name |-> <<"j","u","l","y">>, num |-> 7], [name |-> <<"a","u","g","u","s","t">>, num |-> 8],
       [name |-> <<"s","e","p","t","e","m","b","e","r">>, num |-> 9], [name |-> <<"o","c","t","o","b","e","r">>, num |-> 10],
       [name |-> <<"n","o","v","e","m","b","e","r">>, num |-> 11], [name |-> <<"d","e","c","e","m","b","e","r">>, num |-> 12] >>

\* re.search(r'20\d{2}', s) matches at position i
YearAt(s, i) ==
    /\ i >= 1 /\ i + 3 <= Len(s)
    /\ s[i] = "2" /\ s[i + 1] = "0" /\ IsDigit(s[i + 2]) /\ IsDigit(s[i + 3])

HasYear(s) == \E i \in 1..Len(s) : YearAt(s, i)

\* int(year_match.group()): the leftmost match
YearMatch(s) ==
    LET i == CHOOSE k \in 1..Len(s) : YearAt(s, k) /\ \A j \in 1..(k - 1) : ~YearAt(s, j)
    IN  ToNat(SubSeq(s, i, i + 3))

\* the year taken for a name: the matched year, else datetime.now().year
YearOf(filename, nowYear) == IF HasYear(filename) THEN YearMatch(filename) ELSE nowYear

\* the entries of month_mapping that occur in the lower-cased name
MonthHits(filename) == {k \in 1..Len(month_mapping) : Contains(month_mapping[k].name, Lower(filename))}
\* the leftmost position at which sub occurs in s
LeftmostAt(sub, s) == CHOOSE i \in 1..Len(s) : OccursAt(sub, s, i) /\ \A j \in 1..(i - 1) : ~OccursAt(sub, s, j)

\* a faulty choice: the entry that occurs leftmost in the name
FirstHit_Leftmost(filename) ==
    CHOOSE k \in MonthHits(filename) :
        \A j \in MonthHits(filename) :
            LeftmostAt(month_mapping[k].name, Lower(filename)) <= LeftmostAt(month_mapping[j].name, Lower(filename))

\* the entry the loop returns at: the first in table order
FirstHit(filename) == CHOOSE k \in MonthHits(filename) : \A j \in MonthHits(filename) : k <= j

\* (None, None) is <<0, 0>>
extract_month_from_filename(filename, nowYear) ==
    IF MonthHits(filename) = {} THEN <<0, 0>>
    ELSE <<month_mapping[FirstHit(filename)].num, YearOf(filename, nowYear)>>

\* a faulty successor: December is followed by month 13 of the same year
get_following_month_NoRollover(month, year) == <<month + 1, year>>

get_following_month(month, year) == IF month = 12 THEN <<1, year + 1>> ELSE <<month + 1, year>>

\* ------------------------------------------------------------------------
\* Cell values and their coercions
\* ------------------------------------------------------------------------
\* None
Empty == [t |-> "empty", n |-> 0, s |-> <<>>]

\* an int
Num(v) == [t |-> "num", n |-> v, s |-> <<>>]

\* a str
Text(x) == [t |-> "text", n |-> 0, s |-> x]

\* a datetime
DateV(y, m, d) == [t |-> "date", n |-> y * 10000 + m * 100 + d, s |-> <<>>]

DateYear(c) == c.n \div 10000

DateMonth(c) == (c.n \div 100) % 100

DateDay(c) == c.n % 100
\* a faulty truth test: every cell counts as filled
Truthy_Always(c) == TRUE

\* bool(value): None, 0 and "" are false
Truthy(c) ==
    CASE c.t = "empty" -> FALSE
      [] c.t = "num" -> c.n # 0
      [] c.t = "text" -> Len(c.s) > 0
      [] OTHER -> TRUE

\* str(value)
StrOf(c) ==
    CASE c.t = "text" -> c.s
      [] c.t = "num" -> IntStr(c.n)
      [] c.t = "date" -> NatStr(DateYear(c)) \o <<"-">> \o Pad2(DateMonth(c)) \o <<"-">> \o Pad2(DateDay(c))
                           \o <<" ","0","0",":","0","0",":","0","0">>
      [] OTHER -> <<"N","o","n","e">>

\* float(s) for texts made of digits, signs, spaces and other characters that
\* are not part of a numeral: [ok, v], ok = FALSE where float raises ValueError
ParseFloat(s) ==
    LET t == Strip(s)
        signed == Len(t) > 0 /\ t[1] \in {"-", "+"}
        digits == IF signed THEN SubSeq(t, 2, Len(t)) ELSE t
    IN  IF Len(digits) > 0 /\ AllDigits(digits)
        THEN [ok |-> TRUE, v |-> IF signed /\ t[1] = "-" THEN 0 - ToNat(digits) ELSE ToNat(digits)]
        ELSE [ok |-> FALSE, v |-> 0]

\* the guard "value and value != '-'"
HasAmount(c) == Truthy(c) /\ c # Text(<<"-">>)
\* a faulty coercion: the thousands separators are not removed
CoerceAmount_KeepCommas(c) ==
    IF HasAmount(c)
    THEN LET r == ParseFloat(StrOf(c)) IN IF r.ok THEN r.v ELSE 0
    ELSE 0

\* debit_amount / return_amount: 0 unless the guard holds and float() succeeds
CoerceAmount(c) ==
    IF HasAmount(c)
    THEN LET r == ParseFloat(Replace(StrOf(c), <<",">>, <<>>)) IN IF r.ok THEN r.v ELSE 0
    ELSE 0

\* the value recorded under 'debit' / 'return': the raw cell value, or 0
RecordedAmount(c) == IF HasAmount(c) THEN c ELSE Num(0)

NoDate == [some |-> FALSE, y |-> 0, m |-> 0, d |-> 0]

\* datetime(y, m, d), which raises ValueError for a day the month does not have
MkDate(y, m, d) ==
    IF y >= 1 /\ m \in 1..12 /\ d >= 1 /\ d <= monthrange(y, m)
    THEN [some |-> TRUE, y |-> y, m |-> m, d |-> d]
    ELSE NoDate

\* the directives %m and %d: one or two digits, in range
NumPart(p, hi) == Len(p) \in {1, 2} /\ AllDigits(p) /\ ToNat(p) >= 1 /\ ToNat(p) <= hi

\* the directive %y: two digits, 00-68 in the 2000s and 69-99 in the 1900s
Year2(p) == IF ToNat(p) <= 68 THEN 2000 + ToNat(p) ELSE 1900 + ToNat(p)

\* datetime.strptime(s, '%m/%d/%y')
Strptime_mdy2(s) ==
    LET p == Split(s, "/")
    IN  IF Len(p) = 3 /\ NumPart(p[1], 12) /\ NumPart(p[2], 31) /\ Len(p[3]) = 2 /\ AllDigits(p[3])
        THEN MkDate(Year2(p[3]), ToNat(p[1]), ToNat(p[2]))
        ELSE NoDate

\* datetime.strptime(s, '%m/%d/%Y')
Strptime_mdY(s) ==
    LET p == Split(s, "/")
    IN  IF Len(p) = 3 /\ NumPart(p[1], 12) /\ NumPart(p[2], 31) /\ Len(p[3]) = 4 /\ AllDigits(p[3])
        THEN MkDate(ToNat(p[3]), ToNat(p[1]), ToNat(p[2]))
        ELSE NoDate

\* datetime.strptime(s, '%Y-%m-%d')
Strptime_Ymd(s) ==
    LET p == Split(s, "-")
    IN  IF Len(p) = 3 /\ Len(p[1]) = 4 /\ AllDigits(p[1]) /\ NumPart(p[2], 12) /\ NumPart(p[3], 31)
        THEN MkDate(ToNat(p[1]), ToNat(p[2]), ToNat(p[3]))
        ELSE NoDate

\* parse_date: a datetime as it is, a text by the first format that parses,
\* anything else None
parse_date(c) ==
    CASE c.t = "date" -> [some |-> TRUE, y |-> DateYear(c), m |-> DateMonth(c), d |-> DateDay(c)]
      [] c.t = "text" ->
            IF Strptime_mdy2(c.s).some THEN Strptime_mdy2(c.s)
            ELSE IF Strptime_mdY(c.s).some THEN Strptime_mdY(c.s)
            ELSE Strptime_Ymd(c.s)
      [] OTHER -> NoDate
\* a faulty membership test: a date that did not parse counts as a match
IsFollowingMonth_NoneMatches(dp, fm, fy) == ~dp.some \/ (dp.m = fm /\ dp.y = fy)

\* a faulty membership test: the year of the processed date is not compared
IsFollowingMonth_AnyYear(dp, fm, fy) == dp.some /\ dp.m = fm

\* is_following_month
IsFollowingMonth(dp, fm, fy) == dp.some /\ dp.m = fm /\ dp.y = fy

\* ------------------------------------------------------------------------
\* The input worksheet and header location
\* ------------------------------------------------------------------------
\* ws.max_column (1 for an empty sheet)
MaxColumn(ws) == IF Len(ws) = 0 THEN 1 ELSE Len(ws[1])

\* the cell at (r, c); iter_rows yields empty cells for rows past ws.max_row
CellAt(ws, r, c) == IF r <= Len(ws) /\ c <= Len(ws[r]) THEN ws[r][c] ELSE Empty

\* max_row of the two header scans
HeaderScanRows == 5

\* the number of located fields at which the first scan stops
HeaderThreshold == 3

\* the empty dict: 0 stands for an absent key
NoHeaders == [date_processed |-> 0, debit_amount |-> 0, return_amount |-> 0, date |-> 0, cn |-> 0, dn |-> 0]

\* len(headers)
HeaderCount(h) == Cardinality({k \in DOMAIN h : h[k] # 0})

\* the test for the date_processed column
IsDateProcessedHeader(text) == Contains(S_DateProcessedA, text) \/ Contains(S_DateProcessedB, text)

\* the if/elif chain of the first scan applied to one cell
ScanCell(h, cell, col) ==
    IF ~Truthy(cell) THEN h
    ELSE LET text == Strip(StrOf(cell))
         IN  IF IsDateProcessedHeader(text) THEN [h EXCEPT !.date_processed = col]
             ELSE IF Contains(S_ACH_DEBIT_AMOUNT, text) THEN [h EXCEPT !.debit_amount = col]
             ELSE IF Contains(S_ACH_RETURN_AMOUNT, text) THEN [h EXCEPT !.return_amount = col]
             ELSE IF text = S_Date THEN [h EXCEPT !.date = col]
             ELSE h

RECURSIVE ScanRow(_, _, _, _)
\* the inner loop over the cells of row r, from column c on
ScanRow(h, ws, r, c) ==
    IF c > MaxColumn(ws) THEN h ELSE ScanRow(ScanCell(h, CellAt(ws, r, c), c), ws, r, c + 1)

\* the break condition after a row
ThresholdMet(h) == HeaderCount(h) >= HeaderThreshold

RECURSIVE ScanRows(_, _, _)
\* the outer loop from row r on: header_row = 0 stands for the name never bound
ScanRows(h, ws, r) ==
    IF r > HeaderScanRows THEN [headers |-> h, header_row |-> 0]
    ELSE LET h2 == ScanRow(h, ws, r, 1)
         IN  IF ThresholdMet(h2) THEN [headers |-> h2, header_row |-> r]
             ELSE ScanRows(h2, ws, r + 1)

\* the first scan
LocateHeader(ws) == ScanRows(NoHeaders, ws, 1)

\* the if/elif chain of the second scan applied to one cell
ScanCellCNDN(h, cell, col) ==
    IF ~Truthy(cell) THEN h
    ELSE LET text == Strip(StrOf(cell))
         IN  IF text = S_CN THEN [h EXCEPT !.cn = col]
             ELSE IF text = S_DN THEN [h EXCEPT !.dn = col]
             ELSE h

RECURSIVE ScanCNDN(_, _, _, _)
\* the second scan: every cell of the first five rows, row by row
ScanCNDN(h, ws, r, c) ==
    IF r > HeaderScanRows THEN h
    ELSE IF c > MaxColumn(ws) THEN ScanCNDN(h, ws, r + 1, 1)
    ELSE ScanCNDN(ScanCellCNDN(h, CellAt(ws, r, c), c), ws, r, c + 1)

\* the check that ends the run with "Could not find 'Date processed' column"
DateProcessedMissing(h) == h.date_processed = 0

\* the optional cells of a data row: '' when the column was not located
OptionalCell(ws, r, col) == IF col # 0 THEN CellAt(ws, r, col) ELSE Text(<<>>)

\* ------------------------------------------------------------------------
\* create_summary_and_je: the cells of the output worksheet
\* ------------------------------------------------------------------------
\* the columns A..L of the journal-entry block
JEColumns == 12

RECURSIVE Blank(_)
\* n cells never written
Blank(n) == IF n = 0 THEN <<>> ELSE <<Empty>> \o Blank(n - 1)

\* a worksheet row of 12 cells whose first cells are given
Row(cells) == cells \o Blank(JEColumns - Len(cells))

EmptyRow == Row(<<>>)

month_names == <<<<"J","a","n","u","a","r","y">>, <<"F","e","b","r","u","a","r","y">>, <<"M","a","r","c","h">>, <<"A","p","r","i","l">>, <<"M","a","y">>, <<"J","u","n","e">>, <<"J","u","l","y">>, <<"A","u","g","u","s","t">>, <<"S","e","p","t","e","m","b","e","r">>, <<"O","c","t","o","b","e","r">>, <<"N","o","v","e","m","b","e","r">>, <<"D","e","c","e","m","b","e","r">>>>

headers_detail == Row(<<Text(S_Date), Text(S_ACH_DEBIT_AMOUNT), Text(S_ACH_RETURN_AMOUNT), Text(S_DateProcessedA), Text(S_CN), Text(S_DN), Text(<<"N","e","t"," ","A","m","o","u","n","t"," ","(","B","-","C",")">>)>>)

je_headers == Row(<<Text(<<"D","e","b","i","t">>), Text(<<"C","r","e","d","i","t">>), Text(S_Date), Text(<<"R","e","v","e","r","s","a","l"," ","D","a","t","e">>), Text(<<"M","e","m","o">>), Text(<<"A","c","c","o","u","n","t">>), Text(<<"D","e","p","a","r","t","m","e","n","t">>), Text(<<"L","o","c","a","t","i","o","n">>), Text(<<"N","a","m","e">>), Text(<<"S","u","b","s","i","d","i","a","r","y">>), Text(<<"J","o","u","r","n","a","l"," ","E","n","t","r","y"," ",":"," ","M","e","m","o">>), Text(<<"C","l","a","s","s">>)>>)

\* the value written to column B or C: None when the recorded value equals 0
AmountCell(v) == IF v = Num(0) THEN Empty ELSE v

\* =IFERROR(B{row}-C{row},"")
NetFormula(row) == <<"=">> \o <<"I","F","E","R","R","O","R">> \o <<"(","B">> \o NatStr(row) \o <<"-","C">> \o NatStr(row) \o <<",","\"","\"",")">>
\* a faulty transaction row: the net expression is written for every record
TxnRow_AlwaysFormula(txn, row) ==
    Row(<<txn.date, AmountCell(txn.debit), AmountCell(txn.return), txn.date_processed, txn.cn, txn.dn,
          Text(NetFormula(row))>>)

\* the worksheet row written for one record of all_transactions
TxnRow(txn, row) ==
    Row(<<txn.date, AmountCell(txn.debit), AmountCell(txn.return), txn.date_processed, txn.cn, txn.dn,
          IF txn.is_following_month THEN Text(NetFormula(row)) ELSE Text(<<>>)>>)

RECURSIVE TxnRows(_, _)
\* the loop over all_transactions from record i on: record i is written to
\* worksheet row 7 + i
TxnRows(txns, i) == IF i > Len(txns) THEN <<>> ELSE <<TxnRow(txns[i], 7 + i)>> \o TxnRows(txns, i + 1)

\* memo
JEMemo(result) == <<"d","L","o","c","a","l"," ","P","e","n","d","i","n","g"," ","D","e","b","i","t","s"," ">> \o Pad2(result.file_month) \o <<".">> \o NatStr(result.file_year)

\* date_str
JEDate(result) ==
    NatStr(result.file_month) \o <<"/">> \o NatStr(monthrange(result.file_year, result.file_month)) \o <<"/">> \o NatStr(result.file_year)

\* reversal_date_str
JEReversalDate(result) == NatStr(result.following_month) \o <<"/","1","/">> \o NatStr(result.following_year)

\* abs(net)
Abs(x) == IF x < 0 THEN 0 - x ELSE x
\* a faulty journal line: the amount is written in the Debit and the Credit cell
JELine_BothColumns(result, isDebit, account) ==
    Row(<<Num(Abs(result.net_amount)), Num(Abs(result.net_amount)),
          Text(JEDate(result)), Text(JEReversalDate(result)), Text(JEMemo(result)), Text(account),
          Text(S_Dept), Text(S_Loc), Empty, Text(S_Subs), Text(JEMemo(result)), Text(S_Class)>>)

\* one journal line: the amount in column 1 (debit) or column 2 (credit)
JELine(result, isDebit, account) ==
    Row(<<IF isDebit THEN Num(Abs(result.net_amount)) ELSE Empty,
          IF isDebit THEN Empty ELSE Num(Abs(result.net_amount)),
          Text(JEDate(result)), Text(JEReversalDate(result)), Text(JEMemo(result)), Text(account),
          Text(S_Dept), Text(S_Loc), Empty, Text(S_Subs), Text(JEMemo(result)), Text(S_Class)>>)

\* a faulty date_str of the command-line copy: a December file is dated in
\* the next year
JEDateCli_DecemberRolls(result) ==
    LET last_day_month == IF result.file_month = 12 THEN 12 ELSE result.file_month
        last_day_year == IF result.file_month = 12 THEN result.file_year + 1 ELSE result.file_year
    IN  NatStr(last_day_month) \o <<"/">> \o NatStr(monthrange(last_day_year, last_day_month)) \o <<"/">> \o NatStr(last_day_year)

\* date_str of the command-line copy: last_day_month and last_day_year are
\* set in a branch on month 12
JEDateCli(result) ==
    LET last_day_month == IF result.file_month = 12 THEN 12 ELSE result.file_month
        last_day_year == IF result.file_month = 12 THEN result.file_year ELSE result.file_year
    IN  NatStr(last_day_month) \o <<"/">> \o NatStr(monthrange(last_day_year, last_day_month)) \o <<"/">> \o NatStr(last_day_year)

\* one journal line of the command-line copy: the cells of the web copy's
\* line, the Date cell holding its own date_str
JELineCli(result, isDebit, account) ==
    Row(<<IF isDebit THEN Num(Abs(result.net_amount)) ELSE Empty,
          IF isDebit THEN Empty ELSE Num(Abs(result.net_amount)),
          Text(JEDateCli(result)), Text(JEReversalDate(result)), Text(JEMemo(result)), Text(account),
          Text(S_Dept), Text(S_Loc), Empty, Text(S_Subs), Text(JEMemo(result)), Text(S_Class)>>)

\* a faulty journal: the columns are not flipped for a negative net
JournalRows_NoFlip(result) ==
    IF result.net_amount # 0
    THEN <<JELine(result, TRUE, S_Acct22010), JELine(result, FALSE, S_Acct21017)>>
    ELSE <<Row(<<Text(S_NoJE)>>)>>

\* a faulty journal: a zero net is booked like a positive one
JournalRows_ZeroBooked(result) ==
    IF result.net_amount >= 0
    THEN <<JELine(result, TRUE, S_Acct22010), JELine(result, FALSE, S_Acct21017)>>
    ELSE <<JELine(result, FALSE, S_Acct22010), JELine(result, TRUE, S_Acct21017)>>

\* the rows written below the journal header: the branch on the sign of net
JournalRows(result) ==
    IF result.net_amount > 0
    THEN <<JELine(result, TRUE, S_Acct22010), JELine(result, FALSE, S_Acct21017)>>
    ELSE IF result.net_amount < 0
    THEN <<JELine(result, FALSE, S_Acct22010), JELine(result, TRUE, S_Acct21017)>>
    ELSE <<Row(<<Text(S_NoJE)>>)>>

\* the journal rows of the command-line copy
JournalRowsCli(result) ==
    IF result.net_amount > 0
    THEN <<JELineCli(result, TRUE, S_Acct22010), JELineCli(result, FALSE, S_Acct21017)>>
    ELSE IF result.net_amount < 0
    THEN <<JELineCli(result, FALSE, S_Acct22010), JELineCli(result, TRUE, S_Acct21017)>>
    ELSE <<Row(<<Text(S_NoJE)>>)>>

\* the rows of the worksheet down to the journal header: title, periods,
\* transaction block, summary block, journal marker and header
ReportHead(result) ==
    LET n == Len(result.all_transactions)
    IN  << Row(<<Text(<<"d","L","o","c","a","l"," ","P","e","n","d","i","n","g"," ","D","e","b","i","t","s"," ","P","r","o","c","e","s","s","i","n","g">>)>>),
           EmptyRow,
           Row(<<Text(<<"F","i","l","e"," ","P","e","r","i","o","d",":"," ">> \o month_names[result.file_month] \o <<" ">> \o NatStr(result.file_year))>>),
           Row(<<Text(<<"D","a","t","e"," ","P","r","o","c","e","s","s","e","d"," ","F","i","l","t","e","r",":"," ">> \o month_names[result.following_month] \o <<" ">> \o NatStr(result.following_year))>>),
           EmptyRow,
           Row(<<Text(<<"A","L","L"," ","T","R","A","N","S","A","C","T","I","O","N","S">>)>>),
           headers_detail >>
        \o TxnRows(result.all_transactions, 1)
        \o << EmptyRow,
              Row(<<Text(<<"S","U","M","M","A","R","Y">>)>>),
              Row(<<Text(<<"D","e","s","c","r","i","p","t","i","o","n">>), Text(<<"A","m","o","u","n","t">>)>>),
              Row(<<Text(<<"T","o","t","a","l"," ","A","C","H"," ","D","e","b","i","t"," ","A","m","o","u","n","t">>), Num(result.total_debit)>>),
              Row(<<Text(<<"T","o","t","a","l"," ","A","C","H"," ","R","e","t","u","r","n"," ","A","m","o","u","n","t">>), Num(result.total_return)>>),
              Row(<<Text(<<"N","e","t"," ","A","m","o","u","n","t"," ","(","D","e","b","i","t"," ","-"," ","R","e","t","u","r","n",")">>), Num(result.net_amount)>>),
              EmptyRow,
              EmptyRow,
              Row(<<Text(S_JOURNAL_ENTRY)>>),
              je_headers >>

\* the rows 1.. of the worksheet that wb.save writes
ReportRows(result) == ReportHead(result) \o JournalRows(result)

\* the rows 1.. of the worksheet that the command-line copy's wb.save writes
ReportRowsCli(result) == ReportHead(result) \o JournalRowsCli(result)

\* ------------------------------------------------------------------------
\* download_je_only: the journal-entry section of a saved report
\* ------------------------------------------------------------------------
\* je_start_row: the row after the first row whose column A is filled and
\* contains 'JOURNAL ENTRY'; 0 stands for None
JEStartRow(rows) ==
    LET hit(i) == Truthy(rows[i][1]) /\ Contains(S_JOURNAL_ENTRY, StrOf(rows[i][1]))
    IN  IF \E i \in 1..Len(rows) : hit(i)
        THEN 1 + CHOOSE i \in 1..Len(rows) : hit(i) /\ \A j \in 1..(i - 1) : ~hit(j)
        ELSE 0

RECURSIVE CopyJERows(_, _)
\* the copy loop from row r to ws_full.max_row: it stops at the first row
\* whose 12 cells are all None
CopyJERows(rows, r) ==
    IF r > Len(rows) \/ (\A c \in 1..JEColumns : rows[r][c] = Empty) THEN <<>>
    ELSE <<rows[r]>> \o CopyJERows(rows, r + 1)

\* the rows of the JE-only worksheet
JEOnlyRows(rows) == IF JEStartRow(rows) = 0 THEN <<>> ELSE CopyJERows(rows, JEStartRow(rows))

\* je_filename
JEOnlyName(filename) == Replace(filename, S_Summary_JE_xlsx, <<"_","J","E","_","O","n","l","y",".","x","l","s","x">>)

\* ------------------------------------------------------------------------
\* File names and paths
\* ------------------------------------------------------------------------
RECURSIVE Join(_, _)
\* sep.join(parts)
Join(parts, sep) ==
    IF Len(parts) = 0 THEN <<>>
    ELSE IF Len(parts) = 1 THEN parts[1]
    ELSE parts[1] \o sep \o Join(Tail(parts), sep)

\* the characters werkzeug's secure_filename keeps: [A-Za-z0-9_.-]
IsSafeChar(c) == IsUpper(c) \/ IsLower(c) \/ IsDigit(c) \/ c \in {"_", ".", "-"}

RECURSIVE StripDots(_)
\* str.strip("._")
StripDots(s) ==
    IF Len(s) > 0 /\ s[1] \in {".", "_"} THEN StripDots(SubSeq(s, 2, Len(s)))
    ELSE IF Len(s) > 0 /\ s[Len(s)] \in {".", "_"} THEN StripDots(SubSeq(s, 1, Len(s) - 1))
    ELSE s

\* werkzeug.utils.secure_filename for ASCII names without path separators:
\* whitespace runs become "_", unsafe characters are dropped
secure_filename(s) ==
    StripDots(SelectSeq(Join(SelectSeq(Split(s, " "), LAMBDA p : Len(p) > 0), <<"_">>), IsSafeChar))

\* filename.rsplit('.', 1)[1]: the text after the last dot
Extension(s) ==
    LET k == CHOOSE i \in 1..Len(s) : s[i] = "." /\ \A j \in (i + 1)..Len(s) : s[j] # "."
    IN  SubSeq(s, k + 1, Len(s))

\* allowed_file
allowed_file(filename) ==
    /\ \E i \in 1..Len(filename) : filename[i] = "."
    /\ Lower(Extension(filename)) \in {<<"x","l","s","x">>, <<"x","l","s">>}

\* openpyxl.load_workbook accepts these extensions and raises
\* InvalidFileException for any other
LoadableFile(filename) ==
    /\ \E i \in 1..Len(filename) : filename[i] = "."
    /\ Lower(Extension(filename)) \in {<<"x","l","s","x">>, <<"x","l","s","m">>, <<"x","l","t","x">>, <<"x","l","t","m">>}

\* the wall clock at the start of a run: the year, and '%m%d_%H%M%S'
Clocks ==
    << [year |-> 2025, rest |-> <<"1","1","0","4","_","1","1","3","5","0","0">>],
       [year |-> 2025, rest |-> <<"1","2","3","0","_","2","3","5","9","5","9">>],
       [year |-> 2026, rest |-> <<"0","1","0","5","_","0","8","0","0","0","0">>] >>

\* datetime.now().year
NowYear(k) == Clocks[k].year

\* datetime.now().strftime('%Y%m%d_%H%M%S')
Timestamp(k) == NatStr(Clocks[k].year) \o Clocks[k].rest

\* unique_filename: the name the upload is staged under
unique_filename(k, filename) == Timestamp(k) \o <<"_">> \o secure_filename(filename)

\* output_filename of the web copy
WebOutputName(k, filename) == Timestamp(k) \o <<"_">> \o Replace(secure_filename(filename), S_xlsx, S_Summary_JE_xlsx)

\* output_file of the command-line copy
CliOutputName(input_file) == Replace(input_file, S_xlsx, S_Summary_JE_xlsx)

\* wb.save(path): the file at the path is created or replaced
WriteFile(fs, name, rows) == {f \in fs : f.name # name} \cup {[name |-> name, rows |-> rows]}

\* openpyxl.load_workbook(path).active: the rows of the file at the path
ReadFile(fs, name) == (CHOOSE f \in fs : f.name = name).rows

\* ------------------------------------------------------------------------
\* Inputs
\* ------------------------------------------------------------------------
\* the most data rows of an input worksheet
MaxRows == 2

\* input file names, each with the month and year tokens it was written with
\* (0: the name has no such token)
FileNames ==
    { [name |-> N_ScenarioA, M |-> 9, Y |-> 2025],
      [name |-> N_Diciembre, M |-> 12, Y |-> 2025],
      [name |-> <<"c","o","n","t","r","o","l"," ","M","A","Y","O"," ","2","0","2","4",".","x","l","s","x">>, M |-> 5, Y |-> 2024],
      [name |-> <<"C","o","n","t","r","o","l"," ","2","0","2","5",".","x","l","s","x">>, M |-> 0, Y |-> 2025],
      [name |-> <<"C","o","n","t","r","o","l"," ","M","a","r","c","h",".","x","l","s","x">>, M |-> 3, Y |-> 0],
      [name |-> <<"1","2","0","0","1"," ","C","o","n","t","r","o","l"," ","J","u","n","i","o"," ","2","0","2","5",".","x","l","s","x">>, M |-> 6, Y |-> 2025],
      [name |-> <<"d","i","s","m","a","y"," ","O","c","t","o","b","e","r"," ","2","0","2","5",".","x","l","s","x">>, M |-> 10, Y |-> 2025],
      [name |-> <<"C","o","n","t","r","o","l"," ","S","e","p","t","i","e","m","b","r","e"," ","2","0","2","5",".","c","s","v">>, M |-> 9, Y |-> 2025],
      [name |-> <<"I","n","f","o","r","m","e"," ","e","n","e","r","o"," ","2","0","2","5",".","x","l","s","x">>, M |-> 1, Y |-> 2025],
      [name |-> <<"F","E","B","R","E","R","O"," ","2","0","2","4"," ","c","o","n","t","r","o","l",".","x","l","s","x">>, M |-> 2, Y |-> 2024],
      [name |-> <<"a","b","r","i","l","2","0","2","5",".","x","l","s","x">>, M |-> 4, Y |-> 2025],
      [name |-> <<"C","o","n","t","r","o","l"," ","J","u","l","i","o"," ","2","0","2","5",".","x","l","s","x">>, M |-> 7, Y |-> 2025],
      [name |-> <<"C","o","n","t","r","o","l"," ","A","u","g","u","s","t"," ","2","0","2","5",".","x","l","s","x">>, M |-> 8, Y |-> 2025],
      [name |-> <<"C","o","n","t","r","o","l"," ","O","c","t","u","b","r","e"," ","2","0","2","5",".","x","l","s","x">>, M |-> 10, Y |-> 2025],
      [name |-> <<"C","o","n","t","r","o","l"," ","N","o","v","i","e","m","b","r","e"," ","2","0","2","5",".","x","l","s","x">>, M |-> 11, Y |-> 2025],
      [name |-> <<"M","a","r","c","h"," ","e","n","e","r","o"," ","2","0","2","5",".","x","l","s","x">>, M |-> 3, Y |-> 2025],
      [name |-> <<"C","o","n","t","r","o","l"," ","S","e","p","t","i","e","m","b","r","e"," ","2","0","2","5",".","X","L","S","X">>, M |-> 9, Y |-> 2025] }

\* the names used with the larger set of worksheets
SheetFileNames == {f \in FileNames : f.name \in {N_ScenarioA, N_Diciembre}}

\* header rows: columns Date, debit, return, date processed, CN, DN
HdrStandard == <<Text(S_Date), Text(S_ACH_DEBIT_AMOUNT), Text(S_ACH_RETURN_AMOUNT), Text(S_DateProcessedA), Text(S_CN), Text(S_DN)>>

HdrCapital == <<Text(S_Date), Text(S_ACH_DEBIT_AMOUNT), Text(S_ACH_RETURN_AMOUNT), Text(S_DateProcessedB), Text(S_CN), Text(S_DN)>>

HdrNoReturn == <<Text(S_Date), Text(S_ACH_DEBIT_AMOUNT), Text(H_Notes), Text(S_DateProcessedA), Text(S_CN), Text(S_DN)>>

HdrTwoFields == <<Text(H_Notes), Text(S_ACH_DEBIT_AMOUNT), Text(H_Notes), Text(S_DateProcessedA), Text(S_CN), Text(S_DN)>>

HdrUpperCase == <<Text(S_Date), Text(S_ACH_DEBIT_AMOUNT), Text(S_ACH_RETURN_AMOUNT), Text(<<"D","A","T","E"," ","P","R","O","C","E","S","S","E","D">>), Text(S_CN), Text(S_DN)>>

TitleRow == <<Text(<<"d","L","o","c","a","l"," ","e","x","p","o","r","t">>), Empty, Empty, Empty, Empty, Empty>>

\* header layouts with which the data loop runs to its end
FullLayouts == { <<HdrStandard>>, <<TitleRow, HdrCapital>> }

\* header layouts with which the run ends early
ShortLayouts == { <<HdrNoReturn>>, <<HdrTwoFields>>, <<HdrUpperCase>>, <<TitleRow>> }

\* a data row in the standard column order
DataRow(debit, ret, dp) == <<DateV(2025, 9, 28), debit, ret, dp, Text(<<"C","N","-","7">>), Empty>>

DataRows ==
    { DataRow(Num(50), Empty, Text(T_10725)),
      DataRow(Text(T_dash), Num(150), Text(<<"2","0","2","5","-","1","0","-","0","9">>)),
      DataRow(Text(<<"1",",","2","0","0">>), Text(T_dash), DateV(2026, 1, 3)),
      DataRow(Num(40), Num(40), Text(<<"p","e","n","d","i","n","g">>)),
      DataRow(Num(10), Empty, Empty),
      DataRow(Num(30), Num(30), Text(<<"1","0","/","2","1","/","2","0","2","5">>)),
      DataRow(Text(<<"a","b","c">>), Num(5), DateV(2024, 10, 5)) }

\* the data rows used below the layouts that end the run early
FewDataRows == { DataRow(Num(50), Empty, Text(T_10725)), DataRow(Num(10), Empty, Empty) }

\* sequences of at most n rows of S
RowSeqs(S, n) == UNION {[1..k -> S] : k \in 0..n}

\* the worksheets: a header layout followed by data rows
Sheets ==
    {h \o d : h \in FullLayouts, d \in RowSeqs(DataRows, MaxRows)}
        \cup {h \o d : h \in ShortLayouts, d \in RowSeqs(FewDataRows, MaxRows)}

\* the worksheet of scenario C: debits 100 and 50, returns 30 and none
ScenarioCSheet == <<HdrStandard, DataRow(Num(100), Num(30), DateV(2025, 10, 5)), DataRow(Num(50), Empty, Text(T_10725))>>

\* a worksheet with a note in the Date column of its first data row
MarkerSheet ==
    <<HdrStandard,
      <<Text(<<"J","O","U","R","N","A","L"," ","E","N","T","R","Y"," ","A","D","J">>), Num(60), Empty, Text(T_10725), Empty, Empty>>,
      DataRow(Num(50), Empty, Text(T_10725))>>

\* a worksheet whose column titles are spread over two rows
SplitHeaderSheet ==
    <<<<Text(S_Date), Text(H_Notes), Text(H_Notes), Text(S_DateProcessedA), Text(S_CN), Text(S_DN)>>,
      <<Empty, Text(S_ACH_DEBIT_AMOUNT), Text(S_ACH_RETURN_AMOUNT), Empty, Empty, Empty>>,
      DataRow(Num(50), Num(20), Text(T_10725))>>

\* a worksheet with rows processed in March of 2024 and of 2025
MarchSheet ==
    <<HdrStandard,
      DataRow(Num(70), Num(20), DateV(2024, 3, 4)),
      DataRow(Num(80), Empty, Text(<<"2","0","2","5","-","0","3","-","0","5">>))>>

\* further pairs of an input file and its worksheet
SpecialCases ==
    { [file |-> CHOOSE f \in FileNames : f.name = N_ScenarioA, sheet |-> MarkerSheet],
      [file |-> CHOOSE f \in FileNames : f.name = N_ScenarioA, sheet |-> SplitHeaderSheet],
      [file |-> CHOOSE f \in FileNames : f.M = 2, sheet |-> MarchSheet] }

\* ------------------------------------------------------------------------
\* State
\* ------------------------------------------------------------------------
VARIABLES
    surface,               \* "web" (app.py) or "cli" (automate_dlocal_pending.py)
    file,                  \* the input file's name, with its tokens
    sheet,                 \* the active worksheet of the input workbook
    clock,                 \* the wall clock of the current run (index into Clocks)
    run,                   \* 1 or 2: the run on this input
    pc,                    \* position of the run
    filepath,              \* the name process_transaction_file is called with
    staged,                \* the web copy's staged upload exists
    file_month, file_year, following_month, following_year,
    headers, header_row,
    rowIdx,                \* the worksheet row the data loop is at
    total_debit, total_return, filtered_transactions, all_transactions,
    wbOpen,                \* the input workbook is open
    wbLoaded,              \* load_workbook was called in this run
    outcome,               \* how the run ended
    result,                \* the dict process_transaction_file returned
    outputs,               \* the workbooks saved, in order
    firstRun,              \* outcome and result of run 1
    extracts,              \* the JE-only workbooks saved, in order
    files                  \* the files at the paths the program writes to: the command-line
                           \* copy's input file and its report, the web copy's outputs folder

vars == <<surface, file, sheet, clock, run, pc, filepath, staged, file_month, file_year, following_month,
          following_year, headers, header_row, rowIdx, total_debit, total_return, filtered_transactions,
          all_transactions, wbOpen, wbLoaded, outcome, result, outputs, firstRun, extracts, files>>

input == <<surface, file, sheet>>

period == <<file_month, file_year, following_month, following_year>>

totals == <<total_debit, total_return, filtered_transactions, all_transactions>>

NoResult ==
    [file_month |-> 0, file_year |-> 0, following_month |-> 0, following_year |-> 0,
     total_debit |-> 0, total_return |-> 0, net_amount |-> 0,
     transactions |-> <<>>, all_transactions |-> <<>>, filename |-> <<>>]

\* the state of a run before its first step
Fresh ==
    /\ pc = "idle"
    /\ filepath = <<>>
    /\ staged = FALSE
    /\ file_month = 0 /\ file_year = 0 /\ following_month = 0 /\ following_year = 0
    /\ headers = NoHeaders /\ header_row = 0
    /\ rowIdx = 0
    /\ total_debit = 0 /\ total_return = 0
    /\ filtered_transactions = <<>> /\ all_transactions = <<>>
    /\ wbOpen = FALSE /\ wbLoaded = FALSE
    /\ outcome = "none"
    /\ result = NoResult

Init ==
    /\ surface \in {"web", "cli"}
    /\ \/ file \in FileNames /\ sheet = ScenarioCSheet /\ clock \in {1, 2}
       \/ file \in SheetFileNames /\ sheet \in Sheets /\ clock = 1
       \/ \E c \in SpecialCases : file = c.file /\ sheet = c.sheet /\ clock = 1
    /\ run = 1
    /\ Fresh
    /\ outputs = <<>> /\ extracts = <<>>
    /\ files = IF surface = "cli" THEN {[name |-> file.name, rows |-> sheet]} ELSE {}
    /\ firstRun = [outcome |-> "none", result |-> NoResult]

\* ------------------------------------------------------------------------
\* Operations
\* ------------------------------------------------------------------------
\* a faulty test: the missing period is never noticed
PeriodMissing_Never(month) == FALSE

\* "if not file_month"
PeriodMissing(month) == month = 0

\* the record appended to all_transactions for worksheet row r
TxnRecord(ws, h, r, fm, fy) ==
    [date |-> OptionalCell(ws, r, h.date),
     date_processed |-> CellAt(ws, r, h.date_processed),
     debit |-> RecordedAmount(CellAt(ws, r, h.debit_amount)),
     return |-> RecordedAmount(CellAt(ws, r, h.return_amount)),
     cn |-> OptionalCell(ws, r, h.cn),
     dn |-> OptionalCell(ws, r, h.dn),
     is_following_month |-> IsFollowingMonth(parse_date(CellAt(ws, r, h.date_processed)), fm, fy)]

\* the record appended to filtered_transactions
FilteredRecord(txn) == [date |-> txn.date, date_processed |-> txn.date_processed, debit |-> txn.debit, return |-> txn.return]

\* upload_file, file type refused: flash and redirect
UploadRejected ==
    /\ pc = "idle" /\ surface = "web"
    /\ ~allowed_file(file.name)
    /\ outcome' = "InvalidFileType"
    /\ pc' = "done"
    /\ UNCHANGED <<input, clock, run, filepath, staged, period, headers, header_row, rowIdx, totals,
                   wbOpen, wbLoaded, result, outputs, firstRun, extracts, files>>

\* upload_file: the upload is saved under the timestamped name
UploadStaged ==
    /\ pc = "idle" /\ surface = "web"
    /\ allowed_file(file.name)
    /\ filepath' = unique_filename(clock, file.name)
    /\ staged' = TRUE
    /\ pc' = "extract"
    /\ UNCHANGED <<input, clock, run, period, headers, header_row, rowIdx, totals,
                   wbOpen, wbLoaded, outcome, result, outputs, firstRun, extracts, files>>

\* main: the input file named on the command line
Main ==
    /\ pc = "idle" /\ surface = "cli"
    /\ filepath' = file.name
    /\ pc' = "extract"
    /\ UNCHANGED <<input, clock, run, staged, period, headers, header_row, rowIdx, totals,
                   wbOpen, wbLoaded, outcome, result, outputs, firstRun, extracts, files>>

\* process_transaction_file: no month in the name, the error is returned
PeriodNotFound ==
    /\ pc = "extract"
    /\ \E p \in {extract_month_from_filename(filepath, NowYear(clock))} : PeriodMissing(p[1])
    /\ outcome' = "PeriodNotFound"
    /\ pc' = "returned"
    /\ UNCHANGED <<input, clock, run, filepath, staged, period, headers, header_row, rowIdx, totals,
                   wbOpen, wbLoaded, result, outputs, firstRun, extracts, files>>

\* process_transaction_file: the file period and the following period
PeriodFound ==
    /\ pc = "extract"
    /\ \E p \in {extract_month_from_filename(filepath, NowYear(clock))} :
          /\ ~PeriodMissing(p[1])
          /\ file_month' = p[1] /\ file_year' = p[2]
          /\ following_month' = get_following_month(p[1], p[2])[1]
          /\ following_year' = get_following_month(p[1], p[2])[2]
    /\ pc' = "load"
    /\ UNCHANGED <<input, clock, run, filepath, staged, headers, header_row, rowIdx, totals,
                   wbOpen, wbLoaded, outcome, result, outputs, firstRun, extracts, files>>

\* openpyxl.load_workbook(filepath)
LoadWorkbook ==
    /\ pc = "load"
    /\ LoadableFile(filepath)
    /\ wbOpen' = TRUE /\ wbLoaded' = TRUE
    /\ pc' = "header"
    /\ UNCHANGED <<input, clock, run, filepath, staged, period, headers, header_row, rowIdx, totals,
                   outcome, result, outputs, firstRun, extracts, files>>

\* openpyxl.load_workbook raises InvalidFileException
LoadFails ==
    /\ pc = "load"
    /\ ~LoadableFile(filepath)
    /\ wbLoaded' = TRUE
    /\ outcome' = "InvalidFileException"
    /\ pc' = "done"
    /\ UNCHANGED <<input, clock, run, filepath, staged, period, headers, header_row, rowIdx, totals,
                   wbOpen, result, outputs, firstRun, extracts, files>>

\* the first scan of the first five rows
FindHeader ==
    /\ pc = "header"
    /\ \E r \in {LocateHeader(sheet)} : headers' = r.headers /\ header_row' = r.header_row
    /\ pc' = "check"
    /\ UNCHANGED <<input, clock, run, filepath, staged, period, rowIdx, totals,
                   wbOpen, wbLoaded, outcome, result, outputs, firstRun, extracts, files>>

\* 'date_processed' not in headers: the error is returned; only the web copy
\* closes the workbook first
HeaderNotFound ==
    /\ pc = "check"
    /\ DateProcessedMissing(headers)
    /\ wbOpen' = IF surface = "web" THEN FALSE ELSE wbOpen
    /\ outcome' = "HeaderNotFound"
    /\ pc' = "returned"
    /\ UNCHANGED <<input, clock, run, filepath, staged, period, headers, header_row, rowIdx, totals,
                   wbLoaded, result, outputs, firstRun, extracts, files>>

\* the second scan, then the data loop starts below header_row
BeginRows ==
    /\ pc = "check"
    /\ ~DateProcessedMissing(headers)
    /\ header_row # 0
    /\ headers' = ScanCNDN(headers, sheet, 1, 1)
    /\ rowIdx' = header_row + 1
    /\ pc' = "rows"
    /\ UNCHANGED <<input, clock, run, filepath, staged, period, header_row, totals,
                   wbOpen, wbLoaded, outcome, result, outputs, firstRun, extracts, files>>

\* the second scan, then header_row + 1 is evaluated with header_row never
\* bound: UnboundLocalError leaves process_transaction_file
HeaderRowUnbound ==
    /\ pc = "check"
    /\ ~DateProcessedMissing(headers)
    /\ header_row = 0
    /\ headers' = ScanCNDN(headers, sheet, 1, 1)
    /\ outcome' = "UnboundLocalError"
    /\ pc' = "done"
    /\ UNCHANGED <<input, clock, run, filepath, staged, period, header_row, rowIdx, totals,
                   wbOpen, wbLoaded, result, outputs, firstRun, extracts, files>>

\* a data row whose date_processed cell is empty: continue
SkipRow ==
    /\ pc = "rows" /\ rowIdx <= Len(sheet)
    /\ ~Truthy(CellAt(sheet, rowIdx, headers.date_processed))
    /\ rowIdx' = rowIdx + 1
    /\ UNCHANGED <<input, clock, run, pc, filepath, staged, period, headers, header_row, totals,
                   wbOpen, wbLoaded, outcome, result, outputs, firstRun, extracts, files>>

\* a retained row: headers['debit_amount'] or headers['return_amount'] is
\* looked up and absent, KeyError leaves process_transaction_file
RowKeyError ==
    /\ pc = "rows" /\ rowIdx <= Len(sheet)
    /\ Truthy(CellAt(sheet, rowIdx, headers.date_processed))
    /\ headers.debit_amount = 0 \/ headers.return_amount = 0
    /\ outcome' = "KeyError"
    /\ pc' = "done"
    /\ UNCHANGED <<input, clock, run, filepath, staged, period, headers, header_row, rowIdx, totals,
                   wbOpen, wbLoaded, result, outputs, firstRun, extracts, files>>

\* a retained row: recorded, and added to the totals when it is in the
\* following month
ProcessRow ==
    /\ pc = "rows" /\ rowIdx <= Len(sheet)
    /\ Truthy(CellAt(sheet, rowIdx, headers.date_processed))
    /\ headers.debit_amount # 0 /\ headers.return_amount # 0
    /\ \E txn \in {TxnRecord(sheet, headers, rowIdx, following_month, following_year)} :
           /\ all_transactions' = Append(all_transactions, txn)
           /\ IF txn.is_following_month
              THEN /\ total_debit' = total_debit + CoerceAmount(CellAt(sheet, rowIdx, headers.debit_amount))
                   /\ total_return' = total_return + CoerceAmount(CellAt(sheet, rowIdx, headers.return_amount))
                   /\ filtered_transactions' = Append(filtered_transactions, FilteredRecord(txn))
              ELSE UNCHANGED <<total_debit, total_return, filtered_transactions>>
    /\ rowIdx' = rowIdx + 1
    /\ UNCHANGED <<input, clock, run, pc, filepath, staged, period, headers, header_row,
                   wbOpen, wbLoaded, outcome, result, outputs, firstRun, extracts, files>>

\* the result dict
MakeResult ==
    [file_month |-> file_month, file_year |-> file_year,
     following_month |-> following_month, following_year |-> following_year,
     total_debit |-> total_debit, total_return |-> total_return,
     net_amount |-> total_debit - total_return,
     transactions |-> filtered_transactions, all_transactions |-> all_transactions,
     filename |-> filepath]

\* the end of the data loop: net amount, result, wb.close(), return
Finish ==
    /\ pc = "rows" /\ rowIdx > Len(sheet)
    /\ result' = MakeResult
    /\ wbOpen' = FALSE
    /\ outcome' = "ok"
    /\ pc' = "returned"
    /\ UNCHANGED <<input, clock, run, filepath, staged, period, headers, header_row, rowIdx, totals,
                   wbLoaded, outputs, firstRun, extracts, files>>

\* the caller on an error: the web copy flashes it and removes the upload,
\* the command-line copy prints it and exits with status 1
ReportError ==
    /\ pc = "returned" /\ outcome # "ok"
    /\ staged' = FALSE
    /\ pc' = "done"
    /\ UNCHANGED <<input, clock, run, filepath, period, headers, header_row, rowIdx, totals,
                   wbOpen, wbLoaded, outcome, result, outputs, firstRun, extracts, files>>

\* the name the report is saved under
OutputName == IF surface = "web" THEN WebOutputName(clock, file.name) ELSE CliOutputName(filepath)

\* the worksheet create_summary_and_je of the running copy builds
Report == IF surface = "web" THEN ReportRows(result) ELSE ReportRowsCli(result)

\* the caller on success: create_summary_and_je builds the worksheet and
\* saves it; the web copy then removes the upload
CreateSummaryAndJE ==
    /\ pc = "returned" /\ outcome = "ok"
    /\ outputs' = Append(outputs, [run |-> run, name |-> OutputName, result |-> result, rows |-> Report])
    /\ files' = WriteFile(files, OutputName, Report)
    /\ staged' = FALSE
    /\ pc' = "done"
    /\ UNCHANGED <<input, clock, run, filepath, period, headers, header_row, rowIdx, totals,
                   wbOpen, wbLoaded, outcome, result, firstRun, extracts>>

\* download_je_only on the report this run saved: the journal section is
\* copied to a new workbook, which is saved under je_filename
DownloadJEOnly ==
    /\ pc = "done" /\ surface = "web" /\ outcome = "ok"
    /\ \A i \in 1..Len(extracts) : extracts[i].run # run
    /\ \E i \in 1..Len(outputs) :
           /\ outputs[i].run = run
           /\ extracts' = Append(extracts, [run |-> run, name |-> JEOnlyName(outputs[i].name),
                                            rows |-> JEOnlyRows(ReadFile(files, outputs[i].name))])
           /\ files' = WriteFile(files, JEOnlyName(outputs[i].name), JEOnlyRows(ReadFile(files, outputs[i].name)))
    /\ UNCHANGED <<input, clock, run, pc, filepath, staged, period, headers, header_row, rowIdx, totals,
                   wbOpen, wbLoaded, outcome, result, outputs, firstRun>>

\* the same input file is submitted again, at a later time
Rerun ==
    /\ pc = "done" /\ run = 1
    /\ surface = "cli" => [name |-> file.name, rows |-> sheet] \in files
    /\ run' = 2
    /\ clock' \in (clock + 1)..Len(Clocks)
    /\ firstRun' = [outcome |-> outcome, result |-> result]
    /\ pc' = "idle"
    /\ filepath' = <<>>
    /\ staged' = FALSE
    /\ file_month' = 0 /\ file_year' = 0 /\ following_month' = 0 /\ following_year' = 0
    /\ headers' = NoHeaders /\ header_row' = 0
    /\ rowIdx' = 0
    /\ total_debit' = 0 /\ total_return' = 0
    /\ filtered_transactions' = <<>> /\ all_transactions' = <<>>
    /\ wbOpen' = FALSE /\ wbLoaded' = FALSE
    /\ outcome' = "none"
    /\ result' = NoResult
    /\ UNCHANGED <<input, outputs, extracts, files>>

Next ==
    \/ UploadRejected \/ UploadStaged \/ Main
    \/ PeriodNotFound \/ PeriodFound
    \/ LoadWorkbook \/ LoadFails
    \/ FindHeader \/ HeaderNotFound \/ BeginRows \/ HeaderRowUnbound
    \/ SkipRow \/ RowKeyError \/ ProcessRow \/ Finish
    \/ ReportError \/ CreateSummaryAndJE \/ DownloadJEOnly
    \/ Rerun

Spec == Init /\ [][Next]_vars

\* ------------------------------------------------------------------------
\* The two copies called on the same path: process_transaction_file(filepath)
\* and create_summary_and_je(result, output_filepath) of the web copy, then
\* of the command-line copy, on the same file at the same time
\* ------------------------------------------------------------------------
\* process_transaction_file is entered with the path of the file
ProcessDirect ==
    /\ pc = "idle"
    /\ filepath' = file.name
    /\ pc' = "extract"
    /\ UNCHANGED <<input, clock, run, staged, period, headers, header_row, rowIdx, totals,
                   wbOpen, wbLoaded, outcome, result, outputs, firstRun, extracts, files>>

\* the web copy is done: the command-line copy is given the same file
OtherCopy ==
    /\ pc = "done" /\ run = 1 /\ surface = "web"
    /\ surface' = "cli"
    /\ run' = 2
    /\ firstRun' = [outcome |-> outcome, result |-> result]
    /\ pc' = "idle"
    /\ filepath' = <<>>
    /\ staged' = FALSE
    /\ file_month' = 0 /\ file_year' = 0 /\ following_month' = 0 /\ following_year' = 0
    /\ headers' = NoHeaders /\ header_row' = 0
    /\ rowIdx' = 0
    /\ total_debit' = 0 /\ total_return' = 0
    /\ filtered_transactions' = <<>> /\ all_transactions' = <<>>
    /\ wbOpen' = FALSE /\ wbLoaded' = FALSE
    /\ outcome' = "none"
    /\ result' = NoResult
    /\ UNCHANGED <<file, sheet, clock, outputs, extracts, files>>

InitEq == Init /\ surface = "web"

NextEq ==
    \/ ProcessDirect
    \/ PeriodNotFound \/ PeriodFound
    \/ LoadWorkbook \/ LoadFails
    \/ FindHeader \/ HeaderNotFound \/ BeginRows \/ HeaderRowUnbound
    \/ SkipRow \/ RowKeyError \/ ProcessRow \/ Finish
    \/ ReportError \/ CreateSummaryAndJE
    \/ OtherCopy

SpecEq == InitEq /\ [][NextEq]_vars

\* ------------------------------------------------------------------------
\* Properties
\* ------------------------------------------------------------------------
\* the saved workbooks
Saved == {outputs[i] : i \in 1..Len(outputs)}

\* the worksheet row of the journal marker: the last row that holds the
\* label alone
JEMarkerRow(rows) ==
    CHOOSE i \in 1..Len(rows) :
        /\ rows[i] = Row(<<Text(S_JOURNAL_ENTRY)>>)
        /\ \A j \in (i + 1)..Len(rows) : rows[j] # Row(<<Text(S_JOURNAL_ENTRY)>>)

\* the rows of a saved worksheet below the journal header row
JournalData(rows) == SubSeq(rows, JEMarkerRow(rows) + 2, Len(rows))

IsDebitRow(row, amount) == row[1] = Num(amount) /\ row[2] = Empty

IsCreditRow(row, amount) == row[1] = Empty /\ row[2] = Num(amount)

\* no workbook was saved by the current run
NoOutputThisRun == \A o \in Saved : o.run # run

Thm_C2_SignDecidesColumns ==
    \A o \in Saved :
        LET d == JournalData(o.rows)
            net == o.result.net_amount
        IN  /\ net > 0 =>
                /\ IsDebitRow(d[1], net) /\ d[1][6] = Text(S_Acct22010)
                /\ IsCreditRow(d[2], net) /\ d[2][6] = Text(S_Acct21017)
            /\ net < 0 =>
                /\ IsCreditRow(d[1], 0 - net) /\ d[1][6] = Text(S_Acct22010)
                /\ IsDebitRow(d[2], 0 - net) /\ d[2][6] = Text(S_Acct21017)

\* the report of scenario C was saved: totals 150 and 30, net 120
Wit_C2_ScenarioCSaved ==
    \E o \in Saved : o.result.total_debit = 150 /\ o.result.total_return = 30 /\ o.result.net_amount = 120

\* C3: a saved report whose net amount is 0 has no journal line: below the
\* journal header there is one row, the informational text in column A, and
\* no number anywhere in the block
Thm_C3_ZeroNetNoLines ==
    \A o \in Saved :
        o.result.net_amount = 0 =>
            LET d == JournalData(o.rows)
            IN  /\ Len(d) = 1
                /\ d[1][1] = Text(S_NoJE)
                /\ \A c \in 2..JEColumns : d[1][c] = Empty
                /\ \A k \in 1..Len(d) : \A c \in 1..JEColumns : d[k][c].t # "num"

\* a report was saved whose matched debits and returns cancel out
Wit_C3_CancelledOut ==
    \E o \in Saved : o.result.net_amount = 0 /\ o.result.total_debit > 0 /\ Len(o.result.transactions) > 0

\* the worksheet rows below the header row whose date_processed cell is not empty
RetainedRows == {r \in (header_row + 1)..Len(sheet) : Truthy(CellAt(sheet, r, headers.date_processed))}

\* the retained rows whose parsed processed-date lies in the following period
RowsInFollowingPeriod ==
    {r \in RetainedRows :
        LET d == parse_date(CellAt(sheet, r, headers.date_processed))
        IN  d.some /\ d.m = result.following_month /\ d.y = result.following_year}

RECURSIVE SumCoerced(_, _)
\* the sum of the coerced amounts of column col over the rows S
SumCoerced(S, col) ==
    IF S = {} THEN 0
    ELSE LET r == CHOOSE x \in S : TRUE
         IN  CoerceAmount(CellAt(sheet, r, col)) + SumCoerced(S \ {r}, col)

\* C4: after process_transaction_file succeeds the totals are the sums of the
\* coerced amounts over exactly the retained rows of the following period,
\* and net = total_debit - total_return
Thm_C4_TotalsOverFollowingPeriod ==
    outcome = "ok" =>
        /\ result.total_debit = SumCoerced(RowsInFollowingPeriod, headers.debit_amount)
        /\ result.total_return = SumCoerced(RowsInFollowingPeriod, headers.return_amount)
        /\ result.net_amount = result.total_debit - result.total_return
        /\ Len(result.transactions) = Cardinality(RowsInFollowingPeriod)

\* a run succeeded with a row in the following period and a retained row
\* outside it that carries an amount
Wit_C4_MixedRows ==
    /\ outcome = "ok"
    /\ RowsInFollowingPeriod # {}
    /\ \E r \in RetainedRows \ RowsInFollowingPeriod :
           CoerceAmount(CellAt(sheet, r, headers.debit_amount)) + CoerceAmount(CellAt(sheet, r, headers.return_amount)) > 0

\* the name carries a month token and a year token
NameHasPeriod == file.M # 0 /\ file.Y # 0

\* C5: for a name with month token M and year Y the extracted period is
\* (M, Y), whatever else the name holds
CE_C5_ExtractsNamedPeriod ==
    NameHasPeriod =>
        /\ outcome # "PeriodNotFound"
        /\ pc = "load" => file_month = file.M /\ file_year = file.Y

\* what the claim compares of a result: periods, totals, net, matched set
ResultCore(r) ==
    <<r.file_month, r.file_year, r.following_month, r.following_year,
      r.total_debit, r.total_return, r.net_amount, r.transactions>>

\* C6: a second run on the same input file ends as the first did, with the
\* same periods, totals, net amount and matched set, whatever the clock
CE_C6_SameResultOnRerun ==
    (run = 2 /\ pc = "done" /\ NameHasPeriod) =>
        /\ outcome = firstRun.outcome
        /\ ResultCore(result) = ResultCore(firstRun.result)

\* C7: the following period is (m + 1, y) for m <= 11 and (1, y + 1) for
\* m = 12: a month in 1..12, exactly one calendar month later
Thm_C7_FollowingMonth ==
    file_month # 0 =>
        /\ file_month <= 11 => following_month = file_month + 1 /\ following_year = file_year
        /\ file_month = 12 => following_month = 1 /\ following_year = file_year + 1
        /\ following_month \in 1..12
        /\ following_year * 12 + following_month = file_year * 12 + file_month + 1

\* the period after a December file was computed
Wit_C7_DecemberRollover == file_month = 12 /\ following_month = 1 /\ following_year = file_year + 1 /\ pc = "load"

\* C8: a name without a month name ends the run with PeriodNotFound, before
\* the workbook is loaded and without any workbook saved
Thm_C8_PeriodNotFound ==
    file.M = 0 =>
        /\ ~wbLoaded
        /\ NoOutputThisRun
        /\ (pc \in {"returned", "done"} /\ outcome # "InvalidFileType") => outcome = "PeriodNotFound"

\* a run ended with PeriodNotFound reported to the caller
Wit_C8_Reported == pc = "done" /\ outcome = "PeriodNotFound" /\ file.M = 0

\* the outcomes of a run that scanned the first five rows
ScannedOutcomes == {"ok", "HeaderNotFound", "UnboundLocalError", "KeyError"}

\* C9: when no row met the threshold, or date_processed was not located, the
\* run ends with HeaderNotFound returned and no workbook saved
CE_C9_HeaderNotFoundReturned ==
    (pc = "done" /\ outcome \in ScannedOutcomes /\ (header_row = 0 \/ headers.date_processed = 0)) =>
        /\ outcome = "HeaderNotFound"
        /\ NoOutputThisRun

\* C10: when the data loop begins the column map holds date_processed,
\* debit_amount and return_amount, and no lookup of a required column fails
CE_C10_RequiredColumnsLocated ==
    /\ pc = "rows" => headers.date_processed # 0 /\ headers.debit_amount # 0 /\ headers.return_amount # 0
    /\ outcome # "KeyError"

\* C11: process_transaction_file never returns to its caller, on any exit
\* path of either copy, with the input workbook still open
CE_C11_WorkbookClosedOnExit == pc \in {"returned", "done"} => ~wbOpen

\* a text without its commas
CommaFree(s) == SelectSeq(s, LAMBDA ch : ch # ",")

\* the text is a numeral: digits after an optional sign
IsNumeral(s) == Len(s) > 0 /\ AllDigits(IF s[1] \in {"-", "+"} THEN Tail(s) ELSE s) /\ Len(s) > (IF s[1] \in {"-", "+"} THEN 1 ELSE 0)

\* the number a numeral denotes
NumeralValue(s) == IF s[1] = "-" THEN 0 - ToNat(Tail(s)) ELSE IF s[1] = "+" THEN ToNat(Tail(s)) ELSE ToNat(s)

\* the amount the coercion rule assigns to a cell: 0 for an empty cell, for
\* "-" and for content that is no number once the commas are removed
ExpectedAmount(c) ==
    CASE c.t = "empty" -> 0
      [] c.t = "num" -> c.n
      [] c.t = "text" /\ c.s = <<"-">> -> 0
      [] c.t = "text" /\ IsNumeral(CommaFree(c.s)) -> NumeralValue(CommaFree(c.s))
      [] OTHER -> 0

RECURSIVE SumExpected(_, _)
\* the sum of the expected amounts of column col over the rows S
SumExpected(S, col) ==
    IF S = {} THEN 0
    ELSE LET r == CHOOSE x \in S : TRUE
         IN  ExpectedAmount(CellAt(sheet, r, col)) + SumExpected(S \ {r}, col)

\* C12: amount coercion never fails and rejects no row: empty cells, "-" and
\* content that is no number after removing commas coerce to 0, any other
\* content to its numeric value; a matched row with debit "-" adds nothing
Thm_C12_CoercionDefaultsToZero ==
    outcome = "ok" =>
        /\ \A r \in RetainedRows : \A col \in {headers.debit_amount, headers.return_amount} :
               CoerceAmount(CellAt(sheet, r, col)) = ExpectedAmount(CellAt(sheet, r, col))
        /\ Len(result.all_transactions) = Cardinality(RetainedRows)
        /\ result.total_debit = SumExpected(RowsInFollowingPeriod, headers.debit_amount)
        /\ result.total_return = SumExpected(RowsInFollowingPeriod, headers.return_amount)
        /\ \A r \in RowsInFollowingPeriod :
               CellAt(sheet, r, headers.debit_amount) = Text(<<"-">>) =>
                   result.total_debit = SumExpected(RowsInFollowingPeriod \ {r}, headers.debit_amount)

\* a run succeeded on a sheet with a matched row whose debit is "-" and a
\* retained row whose debit is text that is no number
Wit_C12_DashAndText ==
    /\ outcome = "ok"
    /\ \E r \in RowsInFollowingPeriod : CellAt(sheet, r, headers.debit_amount) = Text(<<"-">>)
    /\ \E r \in RetainedRows :
           LET c == CellAt(sheet, r, headers.debit_amount)
           IN  c.t = "text" /\ c.s # <<"-">> /\ ~IsNumeral(CommaFree(c.s))

\* a processed-date cell with content that is neither a date value nor text
\* in one of the accepted formats
UnparseableDate(c) == c.t = "num" \/ (c.t = "text" /\ Len(c.s) > 0 /\ ~parse_date(c).some)

NonEmptyCell(c) == c.t # "empty" /\ c # Text(<<>>)

RECURSIVE RecordedRowsFrom(_, _)
\* the rows r..last with a non-empty date_processed cell, in row order
RecordedRowsFrom(r, last) ==
    IF r > last THEN <<>>
    ELSE (IF NonEmptyCell(CellAt(sheet, r, headers.date_processed)) THEN <<r>> ELSE <<>>)
             \o RecordedRowsFrom(r + 1, last)

Extracted == {extracts[i] : i \in 1..Len(extracts)}

\* the report the current-or-earlier run r saved
ReportOf(r) == CHOOSE o \in Saved : o.run = r

\* C15: the artifact of download_je_only holds exactly the journal header
\* row followed by the journal data rows of the report, in order, and no
\* title, transaction or summary row, whatever the transaction data is
CE_C15_ExtractIsJournalSection ==
    \A e \in Extracted :
        LET rows == ReportOf(e.run).rows
        IN  e.rows = <<je_headers>> \o JournalData(rows)

\* the cell holds the debit-minus-return expression of worksheet row r
IsNetExpression(cell, r) ==
    /\ cell.t = "text" /\ Len(cell.s) > 0 /\ cell.s[1] = "="
    /\ Contains(<<"B">> \o NatStr(r) \o <<"-", "C">> \o NatStr(r), cell.s)

\* the cell shows nothing
IsBlank(cell) == cell = Empty \/ cell = Text(<<>>)

\* C16: the ALL TRANSACTIONS block has exactly one row per record of
\* all_transactions, in order; column 7 holds the debit-minus-return
\* expression iff the record matches the following period, else it is blank
Thm_C16_OneRowPerRecord ==
    \A o \in Saved :
        LET a == o.result.all_transactions
            n == Len(a)
        IN  /\ o.rows[6][1] = Text(<<"A","L","L"," ","T","R","A","N","S","A","C","T","I","O","N","S">>)
            /\ o.rows[7] = headers_detail
            /\ \A i \in 1..n :
                   /\ o.rows[7 + i][1] = a[i].date
                   /\ o.rows[7 + i][4] = a[i].date_processed
                   /\ a[i].is_following_month => IsNetExpression(o.rows[7 + i][7], 7 + i)
                   /\ ~a[i].is_following_month => IsBlank(o.rows[7 + i][7])
            /\ o.rows[8 + n] = EmptyRow
            /\ o.rows[9 + n][1] = Text(<<"S","U","M","M","A","R","Y">>)

\* a saved report lists a record that matches and one that does not
Wit_C16_MatchedAndUnmatched ==
    \E o \in Saved :
        LET a == o.result.all_transactions
        IN  \E i, j \in 1..Len(a) : a[i].is_following_month /\ ~a[j].is_following_month

\* the number of recognized header cells worksheet row r holds by itself
FieldsOfRow(ws, r) == HeaderCount(ScanRow(NoHeaders, ws, r, 1))

\* C17: the row chosen as header row holds at least 3 recognized header
\* cells itself; fields found in earlier rows do not count for a later row
CE_C17_HeaderRowHoldsThreshold ==
    (pc = "check" /\ header_row # 0) => FieldsOfRow(sheet, header_row) >= HeaderThreshold

\* the rows the header scan visited
ScannedRows == 1..(IF header_row # 0 THEN header_row ELSE HeaderScanRows)

\* the cell's trimmed text contains "date processed" in some letter case
NamesDateProcessed(cell) ==
    Truthy(cell) /\ Contains(<<"d","a","t","e"," ","p","r","o","c","e","s","s","e","d">>, Lower(Strip(StrOf(cell))))

\* C18: a header cell whose text contains "date processed" in any letter
\* case is recognized as the date_processed column
CE_C18_AnyCaseDateProcessed ==
    pc = "check" =>
        \A r \in ScannedRows : \A c \in 1..MaxColumn(sheet) :
            NamesDateProcessed(CellAt(sheet, r, c)) => headers.date_processed = c

\* the month names in table order: Spanish, then English
TableOrder ==
    << <<"e","n","e","r","o">>, <<"f","e","b","r","e","r","o">>, <<"m","a","r","z","o">>, <<"a","b","r","i","l">>,
       <<"m","a","y","o">>, <<"j","u","n","i","o">>, <<"j","u","l","i","o">>, <<"a","g","o","s","t","o">>,
       <<"s","e","p","t","i","e","m","b","r","e">>, <<"o","c","t","u","b","r","e">>,
       <<"n","o","v","i","e","m","b","r","e">>, <<"d","i","c","i","e","m","b","r","e">>,
       <<"j","a","n","u","a","r","y">>, <<"f","e","b","r","u","a","r","y">>, <<"m","a","r","c","h">>, <<"a","p","r","i","l">>,
       <<"m","a","y">>, <<"j","u","n","e">>, <<"j","u","l","y">>, <<"a","u","g","u","s","t">>,
       <<"s","e","p","t","e","m","b","e","r">>, <<"o","c","t","o","b","e","r">>,
       <<"n","o","v","e","m","b","e","r">>, <<"d","e","c","e","m","b","e","r">> >>

\* the table entries that occur in the lower-cased name the run was given
NamesInPath == {k \in 1..Len(TableOrder) : Contains(TableOrder[k], Lower(filepath))}

\* the month number of table entry k
MonthOfEntry(k) == ((k - 1) % 12) + 1

\* C19: with several month names in the file name, the month returned is
\* that of the first table entry that occurs anywhere in the lower-cased
\* name, whatever the positions of the names and whether they are words
Thm_C19_FirstTableEntryWins ==
    (pc = "load" /\ NamesInPath # {}) =>
        \E k \in NamesInPath : (\A j \in NamesInPath : k <= j) /\ file_month = MonthOfEntry(k)

\* the period was extracted from a name in which the name of another month
\* stands to the left of the entry that was returned
Wit_C19_LaterPositionWins ==
    /\ pc = "load"
    /\ \E k, j \in NamesInPath :
           /\ MonthOfEntry(k) = file_month /\ MonthOfEntry(j) # file_month
           /\ \E p \in 1..Len(filepath) :
                  /\ OccursAt(TableOrder[j], Lower(filepath), p)
                  /\ \A q \in 1..p : ~OccursAt(TableOrder[k], Lower(filepath), q)

\* the number of days of month m of year y
DaysInMonth(y, m) ==
    CASE m \in {1, 3, 5, 7, 8, 10, 12} -> 31
      [] m \in {4, 6, 9, 11} -> 30
      [] OTHER -> IF y % 400 = 0 \/ (y % 4 = 0 /\ y % 100 # 0) THEN 29 ELSE 28

\* n written with at least two digits
TwoDigits(n) == IF n < 10 THEN <<"0">> \o NatStr(n) ELSE NatStr(n)

\* C20: every journal line carries the last calendar day of the source month
\* as Date, day 1 of the following period as Reversal Date, and in both memo
\* columns the label, the two-digit source month, a dot and the source year
Thm_C20_SharedFields ==
    \A o \in Saved :
        o.result.net_amount # 0 =>
            LET r == o.result
                d == JournalData(o.rows)
                fm == IF r.file_month = 12 THEN 1 ELSE r.file_month + 1
                fy == IF r.file_month = 12 THEN r.file_year + 1 ELSE r.file_year
                memo == <<"d","L","o","c","a","l"," ","P","e","n","d","i","n","g"," ","D","e","b","i","t","s"," ">>
                            \o TwoDigits(r.file_month) \o <<".">> \o NatStr(r.file_year)
            IN  \A k \in 1..Len(d) :
                    /\ d[k][3] = Text(NatStr(r.file_month) \o <<"/">> \o NatStr(DaysInMonth(r.file_year, r.file_month))
                                          \o <<"/">> \o NatStr(r.file_year))
                    /\ d[k][4] = Text(NatStr(fm) \o <<"/", "1", "/">> \o NatStr(fy))
                    /\ d[k][5] = Text(memo) /\ d[k][11] = Text(memo)
                    /\ Len(NatStr(r.file_year)) = 4

\* journal lines were saved for a February of a leap year
Wit_C20_LeapFebruary ==
    \E o \in Saved :
        o.result.net_amount # 0 /\ o.result.file_month = 2 /\ o.result.file_year % 4 = 0
            /\ Len(JournalData(o.rows)) = 2

\* the file is a full report: it holds the title, the transaction block
\* header and the summary label
IsFullReport(rows) ==
    /\ Len(rows) >= 9
    /\ rows[1][1] # Empty
    /\ rows[7] = headers_detail
    /\ \E i \in 1..Len(rows) : rows[i][1] = Text(<<"S","U","M","M","A","R","Y">>)

\* C21: download_je_only saves its artifact under a path that differs from
\* the report's, so the report it read is still a full report afterwards
CE_C21_ExtractionKeepsReport ==
    \A e \in Extracted :
        /\ e.name # ReportOf(e.run).name
        /\ \E f \in files : f.name = ReportOf(e.run).name /\ IsFullReport(f.rows)

\* C22: a command-line run that processed its input successfully saves the
\* report under a path other than the input's, so the input file is still
\* on disk with the content it had
CE_C22_InputNotOverwritten ==
    (surface = "cli" /\ pc = "done" /\ outcome = "ok") =>
        /\ \A o \in Saved : o.name # file.name
        /\ [name |-> file.name, rows |-> sheet] \in files

RECURSIVE SumRecorded(_, _, _)
\* the sum of the numbers recorded in field f ("debit" or "return") of the
\* records txns[i..]; a recorded text adds nothing
SumRecorded(txns, f, i) ==
    IF i > Len(txns) THEN 0
    ELSE (IF txns[i][f].t = "num" THEN txns[i][f].n ELSE 0) + SumRecorded(txns, f, i + 1)

\* the matched records of all_transactions
MatchedRecords == {i \in 1..Len(result.all_transactions) : result.all_transactions[i].is_following_month}

\* C23: after a successful run every matched record holds numbers in its
\* debit and return fields, these numbers add up to total_debit and
\* total_return, and recorded debit minus recorded return sums to net_amount
CE_C23_RecordedAmountsAreSummed ==
    outcome = "ok" =>
        /\ \A i \in MatchedRecords :
              /\ result.all_transactions[i].debit.t = "num"
              /\ result.all_transactions[i].return.t = "num"
        /\ SumRecorded(result.transactions, "debit", 1) = result.total_debit
        /\ SumRecorded(result.transactions, "return", 1) = result.total_return
        /\ SumRecorded(result.transactions, "debit", 1) - SumRecorded(result.transactions, "return", 1)
              = result.net_amount

=============================================================================
